---- MODULE Spec2Model ----
(***************************************************************************)
(* Model of the claude-autofix-bot orchestration core:                     *)
(*   - the Slack events admission handler (server, POST /api/slack-events) *)
(*   - the thread tracking registry (utils/thread-tracking.ts)             *)
(*   - AsyncJobQueue (enqueue / process, retry at the tail)                *)
(*   - processIssue, the step-wise pipeline run by the queue's worker      *)
(*                                                                         *)
(* Node.js runs one call stack at a time.  A model action is the code      *)
(* executed between two suspension points that wait on an external         *)
(* collaborator (Slack, git, the agent, GitHub, the deployment poller, the *)
(* 1 s sleep of the queue).  Continuations that are only separated by      *)
(* already-resolved promises (the return of enqueue, the return of the     *)
(* handler into the loop of process()) run before any new inbound request  *)
(* and belong to the same action.                                          *)
(***************************************************************************)
EXTENDS Integers, Sequences, FiniteSets, TLC

\* ------------------------------------------------------------------ bounds
\* Slack message timestamps (ts) that can arrive: 1..MaxMsg
MaxMsg == 2
\* the same, when the pipeline is taken as a whole (ThreadSpec)
MaxThreadMsg == 3
\* worker-loop slots the model can represent (the code is meant to use one)
MaxLoops == 2
\* jobs handed to AsyncJobQueue.enqueue when the queue is studied on its own
MaxJobs == 3
\* messages of the one thread whose stored context is followed (ContextSpec)
MaxCtxMsg == 3
\* file names the working tree can report as changed (ContextSpec)
MaxFiles == 2
\* thread keys the tracking functions are called with (TrackingSpec)
MaxTrackThreads == 2
\* words of a Bash command handed to the safety policy (PolicySpec)
MaxCmdLen == 4
\* segments of a file path handed to the safety policy (PolicySpec)
MaxPathLen == 3
\* branch names generateBranchName can produce (GitSpec)
MaxBranches == 2
\* fragments an issue text is put together from (TextSpec)
MaxTextLen == 3
\* last clock reading, in milliseconds, and progress events (ProgressSpec)
MaxNow == 7000
MaxEvents == 4
\* largest maxWaitMinutes (the pipeline passes 5)
MaxWaitMinutes == 5

Largest(S) == CHOOSE n \in S : \A m \in S : m <= n

Msgs == 1..Largest({MaxMsg, MaxThreadMsg, MaxCtxMsg, MaxTrackThreads})
Files == 1..MaxFiles
Loops == 1..MaxLoops

\* ------------------------------------------------------- program constants
\* AsyncJobQueue.maxRetries
maxRetries == 2

\* milliseconds between two forwarded progress events
PROGRESS_UPDATE_INTERVAL == 3000

\* ------------------------------------------------------------------- state
VARIABLES
  queue,              \* AsyncJobQueue.queue : sequence of jobs
  processing,         \* AsyncJobQueue.processing
  loops,              \* running invocations of AsyncJobQueue.process()
  processedMessages,  \* thread-tracking.ts set of admitted message ids
  activeThreads,      \* thread-tracking.ts set of thread keys in flight
  completedThreads,   \* thread-tracking.ts set of thread keys completed once
  threadContextMap,   \* thread-tracking.ts map thread key -> ThreadContext
  cliMode,            \* config.claude.mode === 'cli'
  enqueued,           \* observer: number of enqueue() calls so far
  lastRun,            \* observer: how the processIssue invocation that ended
                      \*   last ended (cleared when the next one starts)
  lastEvent,          \* observer: how the inbound Slack event just received
                      \*   was treated (cleared by the next worker step)
  toolUse,            \* a call of the safety policy or a tool use of the agent
  toolResult,         \* what that call returned / whether the tool ran
  repo,               \* the clone at repoPath and GitAutomationService.git
  gitResult,          \* observer: the last call of GitAutomationService
  fnCall,             \* a call of a helper function of issue-processor.ts
  fnResult            \* the value that call returned

vars == <<queue, processing, loops, processedMessages, activeThreads,
          completedThreads, threadContextMap, cliMode, enqueued, lastRun,
          lastEvent, toolUse, toolResult, repo, gitResult, fnCall,
          fnResult>>

\* ----------------------------------------------------------------- values
NoCtx == [branch |-> 0, pr |-> 0, files |-> {}, text |-> 0, none |-> TRUE]

\* IssueJob.  Observer fields, not read by the program:
\*   seq     arrival number of the job
\*   started handler invocations started on the job so far
\*   prs     successful createPullRequest calls made for the job so far
\*   behind  jobs that were queued when the job last failed and have not
\*           started an attempt since
NoJob == [id |-> 0, threadTs |-> 0, retryCount |-> 0, isFollowUp |-> FALSE,
          threadContext |-> NoCtx, seq |-> 0, started |-> 0, prs |-> 0,
          behind |-> {}]

\* a process() invocation that is not running
FreeLoop == [pc |-> "free", job |-> NoJob, st |-> "none", statusTs |-> FALSE,
             branch |-> 0, pr |-> 0, calls |-> <<>>, failStage |-> "none",
             notifierFailed |-> FALSE, noChanges |-> FALSE, files |-> {}]

NoRun == [threadTs |-> 0, status |-> "none", failStage |-> "none",
          notified |-> FALSE, notifierFailed |-> FALSE, calls |-> <<>>,
          activeAfter |-> FALSE, attempts |-> 0, requeued |-> FALSE,
          prs |-> 0, noChanges |-> FALSE, ctxBranch |-> 0, branch |-> 0,
          files |-> {}, ctxFiles |-> {}]

NoEvent == [outcome |-> "none"]

\* (variant: enqueue is called before any handler is registered)
HandlerNotRegistered == FALSE

\* the handler is registered by the server before it listens
HandlerRegistered == TRUE

\* name of the branch createBranch generates for a job: a function of the
\* job's text; every message carries its own text here
BranchOf(job) == job.id

JobIds(q) == {q[k].id : k \in 1..Len(q)}

\* the safety policy keeps no state: its input and output are observers
policyVars == <<toolUse, toolResult>>

\* the pipeline takes the outcomes of the git service as given
gitVars == <<repo, gitResult>>

\* no clone on disk, this.git = null; head 0 is the base branch, `local`
\* the local branches other than the base branch
NoRepo == [cloned |-> FALSE, git |-> FALSE, head |-> 0, local |-> {}]

NoGitResult ==
  [op |-> "none", name |-> 0, fault |-> "ok", success |-> FALSE,
   threw |-> FALSE, branchName |-> 0, existed |-> FALSE, from |-> 0]

\* SafetyCheckResult; <<>> and "" stand for an absent reason and warning
Allow == [allowed |-> TRUE, reason |-> <<>>, warning |-> ""]

NoToolUse == [call |-> "none"]

\* no helper function called, nothing returned
NoCall == [fn |-> "none"]

\* PermissionResult { behavior: 'allow', updatedInput }
PermissionAllow == [behavior |-> "allow", message |-> <<>>, interrupt |-> FALSE]

\* (variant: the denial asks the SDK to stop the agent run)
DenyAndInterrupt(message) ==
  [behavior |-> "deny", message |-> message, interrupt |-> TRUE]

\* PermissionResult { behavior: 'deny', message }; interrupt is left unset
Deny(message) ==
  [behavior |-> "deny", message |-> message, interrupt |-> FALSE]

NoToolResult ==
  [done |-> FALSE, checked |-> "none", verdict |-> Allow, executed |-> FALSE,
   permission |-> PermissionAllow, interrupted |-> FALSE]

\* ------------------------------------------------------------------- Init
\* the orchestration state after construction
Constructed ==
  /\ queue = <<>>
  /\ processing = FALSE
  /\ loops = [i \in Loops |-> FreeLoop]
  /\ processedMessages = {}
  /\ activeThreads = {}
  /\ completedThreads = {}
  /\ threadContextMap = [t \in Msgs |-> NoCtx]
  /\ cliMode \in BOOLEAN
  /\ enqueued = 0
  /\ lastRun = NoRun
  /\ lastEvent = NoEvent

Init ==
  /\ Constructed
  /\ toolUse = NoToolUse
  /\ toolResult = NoToolResult
  /\ repo = NoRepo
  /\ gitResult = NoGitResult
  /\ fnCall = NoCall
  /\ fnResult = NoCall

\* ------------------------------------------------- AsyncJobQueue.process()
\* (variant: the flag is not set when the loop starts)
ProcessingNeverSet == FALSE

\* value written to `processing` when a process() invocation passes its guard
ProcessingWhileLooping == TRUE

\* guard of process(): returns at once when a loop runs or no handler is set
ProcessMayStart == ~(processing \/ ~HandlerRegistered)

\* guard of enqueue(): calls process() only when no loop is running
EnqueueCallsProcess == ~processing

\* local variables of processIssue at its first suspension point
StartedHandler(job) ==
  LET reuse == job.isFollowUp /\ ~job.threadContext.none
  IN [pc |-> "run", job |-> [job EXCEPT !.started = @ + 1], st |-> "post",
      statusTs |-> FALSE,
      branch |-> IF reuse THEN job.threadContext.branch ELSE 0,
      pr |-> IF reuse THEN job.threadContext.pr ELSE 0,
      calls |-> <<>>, failStage |-> "none", notifierFailed |-> FALSE,
      noChanges |-> FALSE, files |-> {}]

\* the smallest free slot, for a process() invocation that starts
FreeSlot == CHOOSE i \in Loops : loops[i].pc = "free" /\
                                 \A k \in Loops : loops[k].pc = "free" => i <= k

\* a process() invocation can be represented when a slot is free
HasFreeSlot == \E i \in Loops : loops[i].pc = "free"

\* this.queue.shift(): the job taken and the jobs left
Shifted(q) == [job |-> Head(q), rest |-> Tail(q)]

\* observer: job `id` starts an attempt, so it is no longer awaited by the
\* jobs that failed while it was queued
Attempted(q, id) == [k \in 1..Len(q) |-> [q[k] EXCEPT !.behind = @ \ {id}]]

\* top of the while loop in slot i with queue q and flag value p: shift the
\* head and call the handler, or leave the loop when the queue is empty
LoopTop(i, q, p) ==
  IF Len(q) > 0
  THEN LET sh == Shifted(q)
       IN /\ queue' = Attempted(sh.rest, sh.job.id)
          /\ loops' = [k \in Loops |->
                         IF k = i THEN StartedHandler(sh.job)
                         ELSE [loops[k] EXCEPT
                                 !.job.behind = @ \ {sh.job.id}]]
          /\ processing' = p
          /\ lastRun' = NoRun
  ELSE /\ queue' = q
       /\ loops' = [loops EXCEPT ![i] = FreeLoop]
       /\ processing' = FALSE
       /\ UNCHANGED lastRun

\* end of sleep(1000) between two jobs
Wake(i) ==
  /\ loops[i].pc = "sleep"
  /\ LoopTop(i, queue, processing)
  /\ lastEvent' = NoEvent
  /\ UNCHANGED <<processedMessages, activeThreads, completedThreads,
                 threadContextMap, cliMode, policyVars, gitVars, fnCall, fnResult, enqueued>>

\* the queue after the loop has looked at the handler's outcome: a result
\* that is not 'completed', or an exception, re-appends the job while
\* retryCount < maxRetries
\* (variant: the bound is compared with <=)
RetryLeftInclusive(job) == job.retryCount <= maxRetries

RetryLeft(job) == job.retryCount < maxRetries

\* (variant: the failed job is put back at the head)
RequeuedAtHead(q, job) ==
  <<[job EXCEPT !.retryCount = job.retryCount + 1, !.behind = JobIds(q)]>> \o q

Requeued(q, job) ==
  Append(q, [job EXCEPT !.retryCount = job.retryCount + 1,
                        !.behind = JobIds(q)])

AfterHandler(q, job, status) ==
  IF status # "completed" /\ RetryLeft(job) THEN Requeued(q, job) ELSE q

\* (variant: no catch around the handler call, an exception ends process()
\* with the flag still set)
LoopDiesOnThrow(status, q) ==
  IF status = "threw" THEN "dead" ELSE IF Len(q) > 0 THEN "sleep" ELSE "free"

\* where the loop goes once the outcome is dealt with: an exception of the
\* handler is caught like a failed result, then the loop sleeps if a job
\* is queued and otherwise leaves the while loop
LoopAfterJob(status, q) == IF Len(q) > 0 THEN "sleep" ELSE "free"

\* ------------------------------------------------------ thread-tracking.ts
\* (variant: the whole set is emptied)
clearAllActive(act, threadTs) == {}

clearActiveThread(act, threadTs) == act \ {threadTs}

\* (variant: a completion without context forgets the stored context)
markCompletedForgets(threadTs, ctx) ==
  <<activeThreads \ {threadTs},
    completedThreads \cup {threadTs},
    [threadContextMap EXCEPT ![threadTs] = ctx]>>

\* (variant: the key is not deleted from activeThreads)
markCompletedKeepActive(threadTs, ctx) ==
  <<activeThreads,
    completedThreads \cup {threadTs},
    IF ctx.none THEN threadContextMap
    ELSE [threadContextMap EXCEPT ![threadTs] = ctx]>>

\* markThreadCompleted: new values of <<active, completed, context map>>;
\* ctx.none stands for the optional context being absent
markThreadCompleted(threadTs, ctx) ==
  <<activeThreads \ {threadTs},
    completedThreads \cup {threadTs},
    IF ctx.none THEN threadContextMap
    ELSE [threadContextMap EXCEPT ![threadTs] = ctx]>>

getThreadContext(threadTs) == threadContextMap[threadTs]

\* --------------------------------------- POST /api/slack-events (admission)
isThreadReply(ts, thread_ts) == thread_ts # 0 /\ thread_ts # ts

threadKey(ts, thread_ts) == IF thread_ts # 0 THEN thread_ts ELSE ts

\* (variant: a reply is not checked against activeThreads)
AdmissionNoActiveCheck(ts, thread_ts) ==
  LET key == threadKey(ts, thread_ts)
  IN IF ts \in processedMessages THEN "duplicate"
     ELSE IF isThreadReply(ts, thread_ts) /\ key \notin completedThreads
          THEN "unknown-thread"
     ELSE IF ~isThreadReply(ts, thread_ts) /\ key \in activeThreads
          THEN "active-top"
     ELSE "enqueued"

\* (variant: a reply is not checked against completedThreads)
AdmissionAnyReply(ts, thread_ts) ==
  LET key == threadKey(ts, thread_ts)
  IN IF ts \in processedMessages THEN "duplicate"
     ELSE IF key \in activeThreads
          THEN IF isThreadReply(ts, thread_ts) THEN "active-reply"
               ELSE "active-top"
     ELSE "enqueued"

\* (variant: the message id is not looked up in processedMessages)
AdmissionNoDedup(ts, thread_ts) ==
  LET key == threadKey(ts, thread_ts)
  IN IF isThreadReply(ts, thread_ts) /\ key \in activeThreads
     THEN "active-reply"
     ELSE IF isThreadReply(ts, thread_ts) /\ key \notin completedThreads
          THEN "unknown-thread"
     ELSE IF ~isThreadReply(ts, thread_ts) /\ key \in activeThreads
          THEN "active-top"
     ELSE "enqueued"

\* which return of the handler an event takes.  Events that the stateless
\* checks reject (event type, subtype, bot, user, channel, text length,
\* @mention) touch no state and are left out: the events of the model are
\* the user messages of the monitored channel that pass them.
Admission(ts, thread_ts) ==
  LET key == threadKey(ts, thread_ts)
  IN IF ts \in processedMessages THEN "duplicate"
     ELSE IF isThreadReply(ts, thread_ts) /\ key \in activeThreads
          THEN "active-reply"
     ELSE IF isThreadReply(ts, thread_ts) /\ key \notin completedThreads
          THEN "unknown-thread"
     ELSE IF ~isThreadReply(ts, thread_ts) /\ key \in activeThreads
          THEN "active-top"
     ELSE "enqueued"

NewJob(ts, thread_ts) ==
  [id |-> ts, threadTs |-> threadKey(ts, thread_ts), retryCount |-> 0,
   isFollowUp |-> isThreadReply(ts, thread_ts),
   threadContext |-> IF isThreadReply(ts, thread_ts)
                     THEN getThreadContext(threadKey(ts, thread_ts))
                     ELSE NoCtx,
   seq |-> enqueued + 1, started |-> 0, prs |-> 0, behind |-> {}]

\* AsyncJobQueue.enqueue(job): push, then start process() when idle
Enqueue(job) ==
  LET q == Append(queue, job)
  IN /\ enqueued' = enqueued + 1
     /\ IF EnqueueCallsProcess /\ ProcessMayStart /\ HasFreeSlot
        THEN LoopTop(FreeSlot, q, ProcessingWhileLooping)
        ELSE /\ queue' = q
             /\ UNCHANGED <<loops, processing, lastRun>>

\* the handler of an inbound message event; `seen` tells whether the
\* observer lastEvent records how the event was dealt with
SlackEventSeen(ts, thread_ts, seen) ==
  LET outcome == Admission(ts, thread_ts)
      job == NewJob(ts, thread_ts)
  IN /\ lastEvent' = IF seen THEN [outcome |-> outcome] ELSE NoEvent
     /\ IF outcome = "enqueued"
        THEN /\ Enqueue(job)
             /\ processedMessages' = processedMessages \cup {ts}
             /\ activeThreads' = activeThreads \cup {job.threadTs}
        ELSE UNCHANGED <<queue, loops, processing, lastRun, enqueued,
                         processedMessages, activeThreads>>
     /\ UNCHANGED <<completedThreads, threadContextMap, cliMode, policyVars, gitVars, fnCall, fnResult>>

SlackEvent(ts, thread_ts) == SlackEventSeen(ts, thread_ts, TRUE)

\* ts and thread_ts are Slack timestamps: the thread_ts of an event is absent
\* (0), its own ts, or the ts of an earlier message of the channel
ReceiveFrom(M) ==
  \E ts \in M : \E thread_ts \in {0} \cup {m \in M : m <= ts} :
    SlackEvent(ts, thread_ts)

\* the step-wise specification does not observe the events
Receive ==
  \E ts \in 1..MaxMsg : \E thread_ts \in {0} \cup {m \in 1..MaxMsg : m <= ts} :
    SlackEventSeen(ts, thread_ts, FALSE)

\* ------------------------------------------------------------ processIssue
\* the invocation in slot i moves on to its next suspension point
Continue(i, w) ==
  /\ loops' = [loops EXCEPT ![i] = w]
  /\ lastEvent' = NoEvent
  /\ UNCHANGED <<queue, processing, processedMessages, activeThreads,
                 completedThreads, threadContextMap, cliMode, policyVars, gitVars, fnCall, fnResult, enqueued,
                 lastRun>>

\* processIssue returns (status 'completed' or 'failed') or rejects
\* ("threw"); the loop of process() inspects the outcome, re-appends the job
\* or drops it, then sleeps if jobs are queued or leaves the loop
Return(i, w, status, notified, track) ==
  LET job == w.job
      q == AfterHandler(queue, job, status)
  IN /\ queue' = q
     /\ loops' = [loops EXCEPT
                    ![i] = [FreeLoop EXCEPT !.pc = LoopAfterJob(status, q)]]
     /\ processing' = IF LoopAfterJob(status, q) = "free" THEN FALSE
                      ELSE processing
     /\ activeThreads' = track[1]
     /\ completedThreads' = track[2]
     /\ threadContextMap' = track[3]
     /\ lastRun' = [threadTs |-> job.threadTs, status |-> status,
                    failStage |-> w.failStage, notified |-> notified,
                    notifierFailed |-> w.notifierFailed, calls |-> w.calls,
                    activeAfter |-> job.threadTs \in track[1],
                    attempts |-> job.started, requeued |-> q # queue,
                    prs |-> job.prs, noChanges |-> w.noChanges,
                    ctxBranch |-> IF job.isFollowUp
                                  THEN job.threadContext.branch ELSE 0,
                    branch |-> w.branch, files |-> w.files,
                    ctxFiles |-> job.threadContext.files]
     /\ lastEvent' = NoEvent
     /\ UNCHANGED <<processedMessages, cliMode, policyVars, gitVars, fnCall, fnResult, enqueued>>

Untracked == <<activeThreads, completedThreads, threadContextMap>>

Cleared(threadTs) ==
  <<clearActiveThread(activeThreads, threadTs), completedThreads,
    threadContextMap>>

\* an exception reaches the catch block of processIssue: the active claim
\* is cleared, then the status message is updated if there is one
Caught(i, w) ==
  IF w.statusTs
  THEN /\ loops' = [loops EXCEPT ![i] = [w EXCEPT !.st = "catchUpdate"]]
       /\ activeThreads' = clearActiveThread(activeThreads, w.job.threadTs)
       /\ lastEvent' = NoEvent
       /\ UNCHANGED <<queue, processing, processedMessages, completedThreads,
                      threadContextMap, cliMode, policyVars, gitVars, fnCall, fnResult, enqueued, lastRun>>
  ELSE Return(i, w, "failed", FALSE, Cleared(w.job.threadTs))

\* slackService.updateMessage outside a try of its own: it throws when the
\* Slack call fails
Notify(i, w, nOk, then) ==
  IF nOk THEN then ELSE Caught(i, [w EXCEPT !.notifierFailed = TRUE])

\* a stage reports its collaborator's failure, clears the claim, returns
FailReport(i, w, stage, nOk) ==
  LET w2 == [w EXCEPT !.failStage = stage]
  IN Notify(i, w2, nOk, Return(i, w2, "failed", TRUE,
                               Cleared(w.job.threadTs)))

Called(w, op) == [w EXCEPT !.calls = Append(@, op)]

AtStage(i, stage) == loops[i].pc = "run" /\ loops[i].st = stage

\* STEP 1: addReaction (never throws), postMessage of the status message
StepPost(i) ==
  /\ AtStage(i, "post")
  /\ \E ok \in BOOLEAN :
       IF ok
       THEN Continue(i, [loops[i] EXCEPT !.statusTs = TRUE, !.st = "init"])
       ELSE Caught(i, [loops[i] EXCEPT !.notifierFailed = TRUE])

AgentStage == IF cliMode THEN "cli" ELSE "agent"

\* STEP 2: updateSlackStatus (failure swallowed), initializeRepo
StepInit(i) ==
  /\ AtStage(i, "init")
  /\ LET w == Called(loops[i], "initializeRepo")
     IN \E ok \in BOOLEAN :
          IF ok
          THEN Continue(i, [w EXCEPT !.st =
                  IF w.job.isFollowUp /\ w.branch # 0 THEN "checkout"
                  ELSE AgentStage])
          ELSE Caught(i, [w EXCEPT !.failStage = "init"])

\* follow-up: checkoutExistingBranch; on failure the branch is forgotten
StepCheckout(i) ==
  /\ AtStage(i, "checkout")
  /\ LET w == Called(loops[i], "checkoutExistingBranch")
     IN \E ok \in BOOLEAN :
          Continue(i, [w EXCEPT !.st = AgentStage,
                                !.branch = IF ok THEN @ ELSE 0])

\* STEP 3 (CLI mode): checkClaudeCliInstalled
StepCli(i) ==
  /\ AtStage(i, "cli")
  /\ LET w == Called(loops[i], "checkClaudeCliInstalled")
     IN \E installed \in BOOLEAN, nOk \in BOOLEAN :
          IF installed
          THEN Continue(i, [w EXCEPT !.st = "agent"])
          ELSE FailReport(i, w, "cli", nOk)

\* STEP 3: analyzeAndFix; STEP 4: a failed agent run is reported
StepAgent(i) ==
  /\ AtStage(i, "agent")
  /\ LET w == Called(loops[i], "analyzeAndFix")
     IN \E success \in BOOLEAN, nOk \in BOOLEAN :
          IF success
          THEN Continue(i, [w EXCEPT !.st = "status"])
          ELSE FailReport(i, w, "agent", nOk)

\* the changed files of a non-empty git status; the step-wise
\* specification does not tell file names apart
StatusFiles == {1}

\* (variant: the stored list holds the files of this attempt only)
newFilesOnly(ctx, filesChanged) == filesChanged

\* originalIssueText of the context an attempt stores: that of the job's
\* context, or the job's own text (never empty, each message has its own)
originalIssueText(job) ==
  IF job.threadContext.none THEN job.id ELSE job.threadContext.text

\* allFilesChanged: without duplicates, the files of the job's context
\* followed by those of this attempt
allFilesChanged(ctx, filesChanged) ==
  IF ctx.none THEN filesChanged ELSE ctx.files \cup filesChanged

\* (variant: the agent's own file list is taken for the changed files)
checkForChangesTrustsAgent(gitStatus, filesModified, ctx) ==
  [noChanges |-> filesModified = {},
   warned |-> FALSE,
   filesChanged |-> filesModified,
   allFilesChanged |-> allFilesChanged(ctx, filesModified)]

\* change detection after the agent run: filesChanged is what git status
\* shows (modified, created, not added); agentResult.filesModified is read
\* for the log only (`warned`: the agent reported files, git shows none).
\* filesChanged goes to commitChanges, allFilesChanged to the stored context
checkForChanges(gitStatus, filesModified, ctx) ==
  [noChanges |-> gitStatus = {},
   warned |-> gitStatus = {} /\ filesModified # {},
   filesChanged |-> gitStatus,
   allFilesChanged |-> allFilesChanged(ctx, gitStatus)]

\* STEP 4: getStatus; no changed file ends the attempt as completed
StepStatus(i) ==
  /\ AtStage(i, "status")
  /\ LET w == Called(loops[i], "getStatus")
     IN \E throws \in BOOLEAN, gitStatus \in {StatusFiles, {}},
           filesModified \in SUBSET StatusFiles, nOk \in BOOLEAN :
          LET d == checkForChanges(gitStatus, filesModified,
                                   w.job.threadContext)
          IN CASE throws -> Caught(i, [w EXCEPT !.failStage = "status"])
               [] ~throws /\ d.noChanges ->
                    LET w2 == [w EXCEPT !.noChanges = TRUE]
                    IN Notify(i, w2, nOk,
                              Return(i, w2, "completed", FALSE,
                                     markThreadCompleted(w.job.threadTs,
                                                         NoCtx)))
               [] OTHER -> Continue(i, [w EXCEPT !.st = "branch",
                                                 !.files = d.filesChanged])

\* STEP 5: createBranch, skipped when a follow-up is on its existing branch
StepBranch(i) ==
  /\ AtStage(i, "branch")
  /\ LET w == loops[i]
     IN \E nOk \in BOOLEAN, success \in BOOLEAN, nOk2 \in BOOLEAN :
          IF w.branch = 0
          THEN LET w2 == Called(w, "createBranch")
               IN Notify(i, w, nOk,
                    IF success
                    THEN Continue(i, [w2 EXCEPT !.branch = BranchOf(w.job),
                                                !.st = "commit"])
                    ELSE FailReport(i, w2, "branch", nOk2))
          ELSE Notify(i, w, nOk, Continue(i, [w EXCEPT !.st = "commit"]))

\* (variant: after the commit the pipeline goes on to the pull request)
StepCommitSkipsPush(i) ==
  /\ AtStage(i, "commit")
  /\ LET w == loops[i]
         w2 == Called(w, "commitChanges")
     IN \E nOk \in BOOLEAN, success \in BOOLEAN, nOk2 \in BOOLEAN :
          Notify(i, w, nOk,
            IF success THEN Continue(i, [w2 EXCEPT !.st = "pr"])
            ELSE FailReport(i, w2, "commit", nOk2))

\* STEP 6: commitChanges
StepCommit(i) ==
  /\ AtStage(i, "commit")
  /\ LET w == loops[i]
         w2 == Called(w, "commitChanges")
     IN \E nOk \in BOOLEAN, success \in BOOLEAN, nOk2 \in BOOLEAN :
          Notify(i, w, nOk,
            IF success THEN Continue(i, [w2 EXCEPT !.st = "push"])
            ELSE FailReport(i, w2, "commit", nOk2))

\* STEP 7: pushBranch
StepPush(i) ==
  /\ AtStage(i, "push")
  /\ LET w == loops[i]
         w2 == Called(w, "pushBranch")
     IN \E nOk \in BOOLEAN, success \in BOOLEAN, nOk2 \in BOOLEAN :
          Notify(i, w, nOk,
            IF success THEN Continue(i, [w2 EXCEPT !.st = "pr"])
            ELSE FailReport(i, w2, "push", nOk2))

\* githubAPIService.createPullRequest: succeeds with a PR for the head
\* branch, or reports failure
CreatePullRequestResults == {"created", "failed"}

\* the PR-creation failure branch: a report, then a result with status
\* 'completed' and no change of the thread tracking
PrCreationFailed(i, w, nOk) ==
  LET w2 == [w EXCEPT !.failStage = "pr"]
  IN Notify(i, w2, nOk, Return(i, w2, "completed", TRUE, Untracked))

\* STEP 8: createPullRequest and addLabels, skipped when the follow-up
\* carries a PR
StepPr(i) ==
  /\ AtStage(i, "pr")
  /\ LET w == loops[i]
         w2 == Called(w, "createPullRequest")
     IN \E nOk \in BOOLEAN, res \in CreatePullRequestResults,
           nOk2 \in BOOLEAN :
          IF w.pr # 0
          THEN Notify(i, w, nOk, Continue(i, [w EXCEPT !.st = "deploy"]))
          ELSE Notify(i, w, nOk,
                 IF res = "created"
                 THEN Continue(i, [Called(w2, "addLabels") EXCEPT
                                     !.pr = w.branch, !.st = "deploy",
                                     !.job.prs = @ + 1])
                 ELSE PrCreationFailed(i, w2, nOk2))

\* the DeploymentResult of waitForDeployment: a preview URL, the placeholder
\* URL given when no Vercel credentials are configured, or success false
DeploymentResults == {"ready", "placeholder", "failed"}

\* whether `deployment.success && deployment.url` holds at STEP 10: after a
\* placeholder the PR comments are searched, `found` telling the outcome
HasPreview(dep, found) == dep = "ready" \/ (dep = "placeholder" /\ found)

\* STEP 9: status update, waitForDeployment (never throws), then the PR
\* comments; a wait without preview URL is observed as failStage "deploy"
StepDeploy(i) ==
  /\ AtStage(i, "deploy")
  /\ LET w == loops[i]
         w2 == Called(w, "waitForDeployment")
     IN \E nOk \in BOOLEAN, dep \in DeploymentResults, found \in BOOLEAN :
          Notify(i, w, nOk,
                 Continue(i, [w2 EXCEPT
                                !.st = "report",
                                !.failStage = IF HasPreview(dep, found)
                                              THEN @ ELSE "deploy"]))

\* (variant: without preview URL the attempt is reported as failed)
StepReportNeedsPreview(i) ==
  /\ AtStage(i, "report")
  /\ LET w == loops[i]
         ctx == [branch |-> w.branch, pr |-> w.pr,
                 files |-> allFilesChanged(w.job.threadContext, w.files),
                 text |-> originalIssueText(w.job), none |-> FALSE]
     IN \E nOk \in BOOLEAN :
          Notify(i, w, nOk,
                 IF w.failStage = "deploy"
                 THEN Return(i, w, "failed", TRUE, Cleared(w.job.threadTs))
                 ELSE Return(i, w, "completed", FALSE,
                             markThreadCompleted(w.job.threadTs, ctx)))

\* STEP 10: the success or the partial-success message, reaction,
\* markThreadCompleted with the context
StepReport(i) ==
  /\ AtStage(i, "report")
  /\ LET w == loops[i]
         ctx == [branch |-> w.branch, pr |-> w.pr,
                 files |-> allFilesChanged(w.job.threadContext, w.files),
                 text |-> originalIssueText(w.job), none |-> FALSE]
     IN \E nOk \in BOOLEAN :
          Notify(i, w, nOk,
                 Return(i, w, "completed", FALSE,
                        markThreadCompleted(w.job.threadTs, ctx)))

\* catch block: updateMessage of the status message
StepCatchUpdate(i) ==
  /\ AtStage(i, "catchUpdate")
  /\ LET w == loops[i]
     IN \E ok \in BOOLEAN :
          IF ok THEN Return(i, w, "failed", TRUE, Untracked)
          ELSE Continue(i, [w EXCEPT !.st = "catchPost",
                                     !.notifierFailed = TRUE])

\* catch block: postMessage after the update failed; its failure leaves
\* processIssue as an exception
StepCatchPost(i) ==
  /\ AtStage(i, "catchPost")
  /\ LET w == loops[i]
     IN \E ok \in BOOLEAN :
          IF ok THEN Return(i, w, "failed", TRUE, Untracked)
          ELSE Return(i, w, "threw", FALSE, Untracked)

Pipeline(i) ==
  \/ StepPost(i) \/ StepInit(i) \/ StepCheckout(i) \/ StepCli(i)
  \/ StepAgent(i) \/ StepStatus(i) \/ StepBranch(i) \/ StepCommit(i)
  \/ StepPush(i) \/ StepPr(i) \/ StepDeploy(i) \/ StepReport(i)
  \/ StepCatchUpdate(i) \/ StepCatchPost(i)

Worker == \E i \in Loops : Wake(i) \/ Pipeline(i)

Next == Receive \/ Worker

Spec == Init /\ [][Next]_vars

\* ------------------------------------------- AsyncJobQueue with any handler
\* The queue takes any JobHandler: here jobs are handed to enqueue() directly
\* and the registered handler is an arbitrary one, which after some time
\* returns a result with status 'completed', returns one with another
\* status, or throws.
HandlerOutcomes == {"completed", "failed", "threw"}

EnqueueJob ==
  /\ enqueued < MaxJobs
  /\ Enqueue([NoJob EXCEPT !.id = enqueued + 1, !.threadTs = enqueued + 1,
                           !.seq = enqueued + 1])
  /\ lastEvent' = [outcome |-> "enqueued"]
  /\ UNCHANGED <<processedMessages, activeThreads, completedThreads,
                 threadContextMap, cliMode, policyVars, gitVars, fnCall, fnResult>>

HandlerEnds(i) ==
  /\ loops[i].pc = "run"
  /\ \E status \in HandlerOutcomes :
       Return(i, loops[i], status, FALSE, Untracked)

QueueWorker == \E i \in Loops : Wake(i) \/ HandlerEnds(i)

QueueNext == EnqueueJob \/ QueueWorker

QueueSpec == Init /\ [][QueueNext]_vars

\* every await of the loop completes: the sleep ends, and the handler
\* settles (the queue has no timeout of its own)
QueueFairSpec == QueueSpec /\ WF_vars(QueueWorker)

\* ------------------------------------- admission with the pipeline as a whole
\* processIssue taken as one operation: after it has started it either ends
\* on one of its return statements, with that statement's effect on the
\* thread tracking, or an exception takes it to its catch block.
WholeOutcomes == {"reported", "noChanges", "prCreationFailed", "stageFailed"}

\* the context stored by the final report: the branch and PR carried by a
\* follow-up, or those created by this attempt
ReportedCtx(w, checkedOut) ==
  LET b == IF w.branch # 0 /\ checkedOut THEN w.branch ELSE BranchOf(w.job)
  IN [branch |-> b, pr |-> IF w.pr # 0 THEN w.pr ELSE b,
      files |-> allFilesChanged(w.job.threadContext, w.files),
      text |-> originalIssueText(w.job), none |-> FALSE]

\* `changed`: the file sets a non-empty git status can show
PipelineEndsWith(i, changed) ==
  /\ AtStage(i, "post")
  /\ LET w == loops[i]
         t == w.job.threadTs
     IN \E outcome \in WholeOutcomes, checkedOut \in BOOLEAN,
           filesChanged \in changed :
          LET w2 == [w EXCEPT !.files = filesChanged]
          IN \* STEP 8 creates no PR when the job carries one
             /\ outcome = "prCreationFailed" => w.pr = 0
             /\ CASE outcome = "reported" ->
                       Return(i, w2, "completed", FALSE,
                              markThreadCompleted(t, ReportedCtx(w2, checkedOut)))
                  [] outcome = "noChanges" ->
                       Return(i, [w EXCEPT !.noChanges = TRUE], "completed",
                              FALSE, markThreadCompleted(t, NoCtx))
                  [] outcome = "prCreationFailed" ->
                       Return(i, [w2 EXCEPT !.failStage = "pr"], "completed",
                              TRUE, Untracked)
                  [] OTHER ->
                       Return(i, w, "failed", TRUE, Cleared(t))

PipelineEnds(i) == PipelineEndsWith(i, {StatusFiles})

\* an exception before (statusTs unset) or after the status message exists
PipelineThrows(i) ==
  /\ AtStage(i, "post")
  /\ \E posted \in BOOLEAN : Caught(i, [loops[i] EXCEPT !.statusTs = posted])

ThreadWorker ==
  \E i \in Loops :
    \/ Wake(i)
    \/ PipelineEnds(i)
    \/ PipelineThrows(i)
    \/ StepCatchUpdate(i)
    \/ StepCatchPost(i)

ThreadReceive == ReceiveFrom(1..MaxThreadMsg)

ThreadNext == ThreadReceive \/ ThreadWorker

\* the whole-pipeline actions do not read the agent mode
ThreadInit == Init /\ ~cliMode

ThreadSpec == ThreadInit /\ [][ThreadNext]_vars

\* ------------------------------------------ one thread and its stored context
\* The messages of one Slack thread (its root, then replies to it), with
\* the pipeline as a whole and the changed files of each attempt told apart.
ContextReceive ==
  \E ts \in 1..MaxCtxMsg : SlackEvent(ts, IF ts = 1 THEN 0 ELSE 1)

ContextPipelineEnds(i) == PipelineEndsWith(i, (SUBSET Files) \ {{}})

ContextWorker ==
  \E i \in Loops :
    \/ Wake(i)
    \/ ContextPipelineEnds(i)
    \/ PipelineThrows(i)
    \/ StepCatchUpdate(i)
    \/ StepCatchPost(i)

ContextNext == ContextReceive \/ ContextWorker

ContextSpec == ThreadInit /\ [][ContextNext]_vars

\* ------------------------------------------- thread-tracking.ts on its own
\* The exported functions and sets of the module, called in any order with
\* any thread key and any context.
TrackThreads == 1..MaxTrackThreads

\* the contexts a caller can pass for thread t (none is the absent argument)
TrackCtxs(t) ==
  {NoCtx} \cup {[branch |-> t, pr |-> t, files |-> F, text |-> t,
                  none |-> FALSE] :
                  F \in SUBSET Files}

\* the call made and the value it gave are observed in fnCall and fnResult
TrackingUnchanged ==
  UNCHANGED <<queue, processing, loops, processedMessages, cliMode,
              policyVars, gitVars, enqueued, lastRun, lastEvent>>

TrackingCall(fn, t, ctx) == [fn |-> fn, threadTs |-> t, ctx |-> ctx]

CallMarkThreadCompleted(t, ctx) ==
  /\ activeThreads' = markThreadCompleted(t, ctx)[1]
  /\ completedThreads' = markThreadCompleted(t, ctx)[2]
  /\ threadContextMap' = markThreadCompleted(t, ctx)[3]
  /\ fnCall' = TrackingCall("markThreadCompleted", t, ctx)
  /\ fnResult' = NoCall
  /\ TrackingUnchanged

\* the value is that of activeThreads.delete: whether the key was present
CallClearActiveThread(t) ==
  /\ activeThreads' = clearActiveThread(activeThreads, t)
  /\ UNCHANGED <<completedThreads, threadContextMap>>
  /\ fnCall' = TrackingCall("clearActiveThread", t, NoCtx)
  /\ fnResult' = [fn |-> "clearActiveThread", value |-> t \in activeThreads]
  /\ TrackingUnchanged

\* activeThreads.add(key), as the event handler does on admission
CallActiveThreadsAdd(t) ==
  /\ activeThreads' = activeThreads \cup {t}
  /\ UNCHANGED <<completedThreads, threadContextMap>>
  /\ fnCall' = TrackingCall("activeThreads.add", t, NoCtx)
  /\ fnResult' = NoCall
  /\ TrackingUnchanged

CallGetThreadContext(t) ==
  /\ UNCHANGED <<activeThreads, completedThreads, threadContextMap>>
  /\ fnCall' = TrackingCall("getThreadContext", t, NoCtx)
  /\ fnResult' = [fn |-> "getThreadContext", value |-> getThreadContext(t)]
  /\ TrackingUnchanged

TrackingNext ==
  \E t \in TrackThreads :
    \/ \E ctx \in TrackCtxs(t) : CallMarkThreadCompleted(t, ctx)
    \/ CallClearActiveThread(t)
    \/ CallActiveThreadsAdd(t)
    \/ CallGetThreadContext(t)

TrackingSpec == ThreadInit /\ [][TrackingNext]_vars

\* ------------------------------------------------- GitAutomationService
\* The service and the clone it works on, called in any order, as the
\* attempts of processIssue do one after the other.  A git command fails
\* when the repository state makes it fail, or for a reason outside the
\* program (network, remote, disk): `fault` names the command of the call
\* that fails for such a reason.
BranchNames == 1..MaxBranches

GitUnchanged ==
  UNCHANGED <<queue, processing, loops, processedMessages, activeThreads,
              completedThreads, threadContextMap, cliMode, enqueued, lastRun,
              lastEvent, policyVars, fnCall, fnResult>>

GitCall(op, name, fault) ==
  [NoGitResult EXCEPT !.op = op, !.name = name, !.fault = fault]

\* initializeRepo: clone when there is no clone, set this.git, fetch, check
\* out the base branch and reset it; any failing command is rethrown
CallInitializeRepo ==
  \E fault \in {"ok", "clone", "fetch", "checkout"} :
    LET call == GitCall("initializeRepo", 0, fault)
    IN /\ fault = "clone" => ~repo.cloned
       /\ IF fault = "clone"
          THEN /\ repo' = repo
               /\ gitResult' = [call EXCEPT !.threw = TRUE]
          ELSE LET r == [repo EXCEPT !.cloned = TRUE, !.git = TRUE]
               IN IF fault = "ok"
                  THEN /\ repo' = [r EXCEPT !.head = 0]
                       /\ gitResult' = [call EXCEPT !.success = TRUE]
                  ELSE /\ repo' = r
                       /\ gitResult' = [call EXCEPT !.threw = TRUE]
       /\ GitUnchanged

\* (variant: a branch left by an earlier run is not deleted)
deleteLocalBranchSkipped(r, branchName) == r

\* git.deleteLocalBranch(branchName, true) inside its own try: the branch is
\* deleted when it exists and is not checked out, an error is swallowed
deleteLocalBranch(r, branchName) ==
  IF branchName \in r.local /\ r.head # branchName
  THEN [r EXCEPT !.local = @ \ {branchName}]
  ELSE r

\* createBranch(options): throws without this.git; otherwise checks out the
\* base branch, pulls, deletes the branch of the generated name, creates it
\* and checks it out; a failing command gives { success: false }
CallCreateBranch ==
  \E branchName \in BranchNames,
     fault \in {"ok", "checkout", "pull", "create"} :
    LET call == [GitCall("createBranch", branchName, fault) EXCEPT
                   !.existed = branchName \in repo.local]
        onBase == [repo EXCEPT !.head = 0]
        cleaned == deleteLocalBranch(onBase, branchName)
    IN /\ CASE ~repo.git ->
                 /\ repo' = repo
                 /\ gitResult' = [call EXCEPT !.threw = TRUE]
            [] repo.git /\ fault = "checkout" ->
                 /\ repo' = repo
                 /\ gitResult' = call
            [] repo.git /\ fault = "pull" ->
                 /\ repo' = onBase
                 /\ gitResult' = call
            [] repo.git /\ fault \in {"ok", "create"}
                 /\ (fault = "create" \/ branchName \in cleaned.local) ->
                 /\ repo' = cleaned
                 /\ gitResult' = call
            [] OTHER ->
                 /\ repo' = [cleaned EXCEPT !.local = @ \cup {branchName},
                                             !.head = branchName]
                 /\ gitResult' = [call EXCEPT !.success = TRUE,
                                              !.branchName = branchName,
                                              !.from = cleaned.head]
       /\ GitUnchanged

\* checkoutExistingBranch(branchName): fetch, check out the local branch or
\* create it from the remote one, pull
CallCheckoutExistingBranch ==
  \E branchName \in BranchNames,
     fault \in {"ok", "fetch", "checkout", "pull"} :
    LET call == [GitCall("checkoutExistingBranch", branchName, fault) EXCEPT
                   !.existed = branchName \in repo.local]
        onBranch == [repo EXCEPT !.local = @ \cup {branchName},
                                 !.head = branchName]
    IN /\ CASE ~repo.git ->
                 /\ repo' = repo
                 /\ gitResult' = [call EXCEPT !.threw = TRUE]
            [] repo.git /\ fault \in {"fetch", "checkout"} ->
                 /\ repo' = repo
                 /\ gitResult' = call
            [] repo.git /\ fault = "pull" ->
                 /\ repo' = onBranch
                 /\ gitResult' = call
            [] OTHER ->
                 /\ repo' = onBranch
                 /\ gitResult' = [call EXCEPT !.success = TRUE,
                                              !.branchName = branchName]
       /\ GitUnchanged

GitNext ==
  \/ CallInitializeRepo
  \/ CallCreateBranch
  \/ CallCheckoutExistingBranch

\* the process starts with no clone, or with the clone an earlier process
\* left at repoPath
GitInit ==
  /\ Constructed /\ ~cliMode
  /\ toolUse = NoToolUse
  /\ toolResult = NoToolResult
  /\ \E cloned \in BOOLEAN :
       \E head \in {0} \cup BranchNames, local \in SUBSET BranchNames :
         /\ cloned => head \in {0} \cup local
         /\ ~cloned => head = 0 /\ local = {}
         /\ repo = [cloned |-> cloned, git |-> FALSE, head |-> head,
                    local |-> local]
  /\ gitResult = NoGitResult
  /\ fnCall = NoCall
  /\ fnResult = NoCall

GitSpec == GitInit /\ [][GitNext]_vars

\* ------------------------------------------- issue-processor.ts helpers
\* A text is its sequence of characters.  The texts of the model are put
\* together from fragments: keywords in either case, parts of keywords that
\* form one only when joined, and characters that belong to none.
Fragments ==
  {<<"B", "u", "g">>,
   <<"f", "i">>,
   <<"x">>,
   <<"E", "R", "R", "O", "R">>,
   <<"A", "d", "d">>,
   <<"n", "e", "w">>,
   <<"I", "m", "p", "l", "e", "m", "e", "n", "t">>,
   <<"c", "l", "e", "a", "n">>,
   <<"R", "E", "F", "A", "C", "T", "O", "R">>,
   <<" ">>,
   <<"z">>}

\* the code looks for these in the order fix, feat, refactor
Keywords ==
  [fix |-> {<<"b", "u", "g">>,
          <<"f", "i", "x">>,
          <<"e", "r", "r", "o", "r">>,
          <<"b", "r", "o", "k", "e", "n">>},
   feat |-> {<<"f", "e", "a", "t", "u", "r", "e">>,
           <<"a", "d", "d">>,
           <<"i", "m", "p", "l", "e", "m", "e", "n", "t">>,
           <<"n", "e", "w">>},
   refactor |-> {<<"r", "e", "f", "a", "c", "t", "o", "r">>,
               <<"i", "m", "p", "r", "o", "v", "e">>,
               <<"o", "p", "t", "i", "m", "i", "z", "e">>,
               <<"c", "l", "e", "a", "n">>}]

\* String.prototype.toLowerCase on the characters of the model
toLowerCase(text) ==
  LET lower == [A |-> "a", B |-> "b", C |-> "c", E |-> "e", F |-> "f", I |-> "i", O |-> "o", R |-> "r", T |-> "t"]
  IN [k \in 1..Len(text) |->
        IF text[k] \in DOMAIN lower THEN lower[text[k]] ELSE text[k]]

\* String.prototype.includes
includes(text, word) ==
  \E k \in 0..(Len(text) - Len(word)) : SubSeq(text, k + 1, k + Len(word)) = word

\* (variant: the feature keywords are looked for first)
determineBranchTypeFeatFirst(text) ==
  LET lowerText == toLowerCase(text)
  IN IF \E w \in Keywords.feat : includes(lowerText, w) THEN "feat"
     ELSE IF \E w \in Keywords.fix : includes(lowerText, w) THEN "fix"
     ELSE IF \E w \in Keywords.refactor : includes(lowerText, w)
          THEN "refactor"
     ELSE "chore"

determineBranchType(text) ==
  LET lowerText == toLowerCase(text)
  IN IF \E w \in Keywords.fix : includes(lowerText, w) THEN "fix"
     ELSE IF \E w \in Keywords.feat : includes(lowerText, w) THEN "feat"
     ELSE IF \E w \in Keywords.refactor : includes(lowerText, w)
          THEN "refactor"
     ELSE "chore"

RECURSIVE Joined(_)
\* the fragments of a text, one after the other
Joined(fs) == IF fs = <<>> THEN <<>> ELSE Head(fs) \o Joined(Tail(fs))

CallDetermineBranchType ==
  /\ fnCall.fn = "determineBranchType" /\ fnResult = NoCall
  /\ fnResult' = [fn |-> "determineBranchType",
                   value |-> determineBranchType(fnCall.text)]
  /\ UNCHANGED <<queue, processing, loops, processedMessages, activeThreads,
                 completedThreads, threadContextMap, cliMode, enqueued,
                 lastRun, lastEvent, policyVars, gitVars, fnCall>>

TextInit ==
  /\ Constructed /\ ~cliMode
  /\ toolUse = NoToolUse
  /\ toolResult = NoToolResult
  /\ repo = NoRepo
  /\ gitResult = NoGitResult
  /\ \E n \in 1..MaxTextLen : \E fs \in [1..n -> Fragments] :
       fnCall = [fn |-> "determineBranchType", text |-> Joined(fs)]
  /\ fnResult = NoCall

TextSpec == TextInit /\ [][CallDetermineBranchType]_vars

\* ------------------------------------------ processIssue: progress throttle
\* The onProgress callback that processIssue hands to the agent runner. The
\* runner calls it with events of any phase at any time; Date.now() is the
\* clock, in milliseconds. fnCall holds the clock and the last event,
\* fnResult the closure variable lastProgressUpdate and, as an observer, the
\* calls of slackService.updateMessage made by the callback.
Phases == {"exploring", "fixing", "complete"}

\* amounts by which the clock advances between two events
Advances == {1000, 1500}

\* (variant: the time of a forwarded event is not remembered)
onProgressNeverStamps(st, now, phase) ==
  IF now - st.lastProgressUpdate < PROGRESS_UPDATE_INTERVAL
       /\ phase # "complete"
  THEN st
  ELSE [st EXCEPT !.updates = Append(@, [at |-> now, phase |-> phase])]

\* the callback: return early inside the interval unless the phase is
\* 'complete', else remember the time and update the status message (a
\* failure of the update is ignored)
onProgress(st, now, phase) ==
  IF now - st.lastProgressUpdate < PROGRESS_UPDATE_INTERVAL
       /\ phase # "complete"
  THEN st
  ELSE [st EXCEPT !.lastProgressUpdate = now,
                  !.updates = Append(@, [at |-> now, phase |-> phase])]

ProgressUnchanged ==
  UNCHANGED <<queue, processing, loops, processedMessages, activeThreads,
              completedThreads, threadContextMap, cliMode, enqueued,
              lastRun, lastEvent, policyVars, gitVars>>

ClockAdvances ==
  /\ fnCall.fn = "onProgress"
  /\ \E d \in Advances :
       /\ fnCall.now + d <= MaxNow
       /\ fnCall' = [fnCall EXCEPT !.now = @ + d]
  /\ UNCHANGED fnResult
  /\ ProgressUnchanged

CallOnProgress ==
  /\ fnCall.fn = "onProgress" /\ fnCall.events < MaxEvents
  /\ \E phase \in Phases :
       /\ fnCall' = [fnCall EXCEPT !.events = @ + 1, !.at = fnCall.now,
                                    !.phase = phase]
       /\ fnResult' = onProgress(fnResult, fnCall.now, phase)
  /\ ProgressUnchanged

ProgressNext == ClockAdvances \/ CallOnProgress

\* lastProgressUpdate = Date.now() when processIssue starts
ProgressInit ==
  /\ Constructed /\ ~cliMode
  /\ toolUse = NoToolUse
  /\ toolResult = NoToolResult
  /\ repo = NoRepo
  /\ gitResult = NoGitResult
  /\ fnCall = [fn |-> "onProgress", now |-> 0, at |-> 0, phase |-> "none",
               events |-> 0]
  /\ fnResult = [fn |-> "onProgress", lastProgressUpdate |-> 0,
                 updates |-> <<>>]

ProgressSpec == ProgressInit /\ [][ProgressNext]_vars

\* --------------------------------- VercelDeploymentService.waitForDeployment
\* One call of waitForDeployment(branchName, maxWaitMinutes). fnCall holds
\* the arguments and whether the Vercel credentials are configured;
\* fnResult holds the position in the code, the local `attempts` of
\* pollForDeployment, the sleeps of 10 seconds made so far, the attempt at
\* which a failed deployment was first found (observer) and the result.
\* (variant: one attempt per second of the wait)
maxAttemptsPerSecond(maxWaitMinutes) == maxWaitMinutes * 60

\* maxAttempts of pollForDeployment: whole for whole minutes
maxAttempts(maxWaitMinutes) == (maxWaitMinutes * 60) \div 10

\* what one attempt finds: getRecentDeployments throws, no deployment of
\* the branch is listed, or its readyState
ApiAnswers == {"throws", "absent", "BUILDING", "READY", "ERROR", "CANCELED"}

DeployUnchanged ==
  UNCHANGED <<queue, processing, loops, processedMessages, activeThreads,
              completedThreads, threadContextMap, cliMode, enqueued,
              lastRun, lastEvent, policyVars, gitVars, fnCall>>

\* without credentials the placeholder result is returned at once; else
\* the first sleep begins
WaitStarts ==
  /\ fnCall.fn = "waitForDeployment" /\ fnResult.pc = "start"
  /\ fnResult' = IF fnCall.configured
                  THEN [fnResult EXCEPT !.pc = "settle"]
                  ELSE [fnResult EXCEPT !.pc = "done",
                                        !.result = "placeholder"]
  /\ DeployUnchanged

\* the loop test of pollForDeployment: another attempt, or null, which
\* waitForDeployment turns into a failure result
LoopTest(r) ==
  IF r.attempts < maxAttempts(fnCall.maxWaitMinutes)
  THEN [r EXCEPT !.pc = "poll"]
  ELSE [r EXCEPT !.pc = "done", !.result = "failed"]

\* end of a sleep(10000): the one before the polling or the one that
\* follows an attempt
SleepEnds ==
  /\ fnCall.fn = "waitForDeployment" /\ fnResult.pc \in {"settle", "sleep"}
  /\ fnResult' = LoopTest([fnResult EXCEPT !.sleeps = @ + 1])
  /\ DeployUnchanged

\* one attempt: READY returns the deployment; the Error thrown for ERROR or
\* CANCELED is caught by the catch of the attempt, like an exception of
\* getRecentDeployments, and the loop goes on to its sleep
PollAttempt ==
  /\ fnCall.fn = "waitForDeployment" /\ fnResult.pc = "poll"
  /\ \E answer \in ApiAnswers :
       LET r == [fnResult EXCEPT !.attempts = @ + 1]
       IN fnResult' =
            IF answer = "READY"
            THEN [r EXCEPT !.pc = "done", !.result = "ready"]
            ELSE [r EXCEPT !.pc = "sleep",
                           !.failedAt =
                              IF @ = 0 /\ answer \in {"ERROR", "CANCELED"}
                              THEN r.attempts ELSE @]
  /\ DeployUnchanged

DeployNext == WaitStarts \/ SleepEnds \/ PollAttempt

DeployInit ==
  /\ Constructed /\ ~cliMode
  /\ toolUse = NoToolUse
  /\ toolResult = NoToolResult
  /\ repo = NoRepo
  /\ gitResult = NoGitResult
  /\ \E m \in 1..MaxWaitMinutes, configured \in BOOLEAN :
       fnCall = [fn |-> "waitForDeployment", maxWaitMinutes |-> m,
                 configured |-> configured]
  /\ fnResult = [fn |-> "waitForDeployment", pc |-> "start", attempts |-> 0,
                 sleeps |-> 0, failedAt |-> 0, result |-> "none"]

DeploySpec == DeployInit /\ [][DeployNext]_vars

\* every await settles: a sleep ends, the Vercel API answers or fails
DeployFairSpec == DeploySpec /\ WF_vars(DeployNext)

\* --------------------------------------- change detection, two runs compared
\* Two runs of the change detection of processIssue on the same git status
\* and the same thread context, with the agent reports a and b.
ChangesInit ==
  /\ Constructed /\ ~cliMode
  /\ toolUse = NoToolUse
  /\ toolResult = NoToolResult
  /\ repo = NoRepo
  /\ gitResult = NoGitResult
  /\ \E gitStatus \in SUBSET Files, a \in SUBSET Files, b \in SUBSET Files,
        ctx \in TrackCtxs(1) :
       fnCall = [fn |-> "checkForChanges", gitStatus |-> gitStatus,
                 a |-> a, b |-> b, ctx |-> ctx]
  /\ fnResult = NoCall

CallCheckForChanges ==
  /\ fnCall.fn = "checkForChanges" /\ fnResult = NoCall
  /\ fnResult' = [fn |-> "checkForChanges",
                   a |-> checkForChanges(fnCall.gitStatus, fnCall.a,
                                         fnCall.ctx),
                   b |-> checkForChanges(fnCall.gitStatus, fnCall.b,
                                         fnCall.ctx)]
  /\ UNCHANGED <<queue, processing, loops, processedMessages, activeThreads,
                 completedThreads, threadContextMap, cliMode, enqueued,
                 lastRun, lastEvent, policyVars, gitVars, fnCall>>

ChangesSpec == ChangesInit /\ [][CallCheckForChanges]_vars

\* ------------------------------------------------- safety.ts: Bash commands
\* A command is its sequence of words, separated by blanks and trimmed.  The
\* tables keep the source's order; of each table the patterns over these
\* words are kept, a pattern being named by the text it looks for.
Words ==
  {"echo", ">", ".env", "sudo", "git", "push", "--force", "status", "curl",
   "x"}

Commands == UNION {[1..n -> Words] : n \in 1..MaxCmdLen}

ALLOWED_BASH_PATTERNS == <<"^git status", "^echo ">>

BLOCKED_BASH_PATTERNS ==
  <<[pattern |-> "sudo ", reason |-> "Privilege escalation"],
    [pattern |-> "git push .*--force", reason |-> "Force push"],
    [pattern |-> "echo .*>.env", reason |-> "Overwriting .env file"]>>

WARN_BASH_PATTERNS ==
  <<[pattern |-> "curl ", warning |-> "Network request with curl"],
    [pattern |-> "git push", warning |-> "Git push operation"]>>

\* pattern.test(command): ^ anchors at the first word, an unanchored
\* pattern is looked for at every position
BashTest(pattern, c) ==
  LET n == Len(c)
  IN CASE pattern = "^git status" ->
            n >= 2 /\ c[1] = "git" /\ c[2] = "status"
       [] pattern = "^echo " -> n >= 2 /\ c[1] = "echo"
       [] pattern = "sudo " -> \E k \in 1..(n - 1) : c[k] = "sudo"
       [] pattern = "git push .*--force" ->
            \E k \in 1..(n - 2) :
              /\ c[k] = "git" /\ c[k + 1] = "push"
              /\ \E l \in (k + 2)..n : c[l] = "--force"
       [] pattern = "echo .*>.env" ->
            \E k \in 1..(n - 2) :
              /\ c[k] = "echo"
              /\ \E l \in (k + 1)..(n - 1) : c[l] = ">" /\ c[l + 1] = ".env"
       [] pattern = "curl " -> \E k \in 1..(n - 1) : c[k] = "curl"
       [] pattern = "git push" ->
            \E k \in 1..(n - 1) : c[k] = "git" /\ c[k + 1] = "push"
       [] OTHER -> FALSE

\* index of the first entry of a table that fits, 0 when none does
FirstIndex(n, Fits(_)) ==
  IF \E k \in 1..n : Fits(k)
  THEN CHOOSE k \in 1..n : Fits(k) /\ \A l \in 1..(k - 1) : ~Fits(l)
  ELSE 0

FirstAllowed(c) ==
  LET Fits(k) == BashTest(ALLOWED_BASH_PATTERNS[k], c)
  IN FirstIndex(Len(ALLOWED_BASH_PATTERNS), Fits)

FirstBlocked(c) ==
  LET Fits(k) == BashTest(BLOCKED_BASH_PATTERNS[k].pattern, c)
  IN FirstIndex(Len(BLOCKED_BASH_PATTERNS), Fits)

FirstWarned(c) ==
  LET Fits(k) == BashTest(WARN_BASH_PATTERNS[k].pattern, c)
  IN FirstIndex(Len(WARN_BASH_PATTERNS), Fits)

\* the reason of a denial is a fixed text followed by the entry's reason
Blocked(text, reason) ==
  [allowed |-> FALSE, reason |-> <<text, reason>>, warning |-> ""]

Warned(warning) == [allowed |-> TRUE, reason |-> <<>>, warning |-> warning]

\* (variant: the blocklist is consulted before the allowlist)
checkBashCommandBlockFirst(command) ==
  IF FirstBlocked(command) # 0
  THEN Blocked("Blocked: ", BLOCKED_BASH_PATTERNS[FirstBlocked(command)].reason)
  ELSE IF FirstAllowed(command) # 0 THEN Allow
  ELSE IF FirstWarned(command) # 0
  THEN Warned(WARN_BASH_PATTERNS[FirstWarned(command)].warning)
  ELSE Allow

checkBashCommand(command) ==
  IF FirstAllowed(command) # 0 THEN Allow
  ELSE IF FirstBlocked(command) # 0
  THEN Blocked("Blocked: ", BLOCKED_BASH_PATTERNS[FirstBlocked(command)].reason)
  ELSE IF FirstWarned(command) # 0
  THEN Warned(WARN_BASH_PATTERNS[FirstWarned(command)].warning)
  ELSE Allow

\* --------------------------------------------------- safety.ts: file paths
\* A path is absolute or relative and has segments (POSIX, "/" separated).
Names ==
  {"..", "tmp", "repo", "repo-other", ".env", ".env.production", ".git",
   "package.json", "src"}

Paths ==
  [abs : BOOLEAN, segs : UNION {[1..n -> Names] : n \in 1..MaxPathLen}]

\* the repository working copy
RepoPaths == {<<"tmp", "repo">>}

\* the names of the model of which one begins with the text of another
NameStartsWith(a, b) ==
  \/ a = b
  \/ a = "repo-other" /\ b = "repo"
  \/ a = ".env.production" /\ b = ".env"

RECURSIVE Normalized(_, _, _)
\* path.normalize on segments: ".." removes the segment before it, is dropped
\* at the root of an absolute path, and is kept at the start of a relative one
Normalized(segs, abs, acc) ==
  IF segs = <<>> THEN acc
  ELSE IF Head(segs) # ".." THEN Normalized(Tail(segs), abs, Append(acc, Head(segs)))
  ELSE IF acc # <<>> /\ acc[Len(acc)] # ".."
       THEN Normalized(Tail(segs), abs, SubSeq(acc, 1, Len(acc) - 1))
  ELSE IF abs THEN Normalized(Tail(segs), abs, acc)
  ELSE Normalized(Tail(segs), abs, Append(acc, ".."))

normalize(p) == [abs |-> p.abs, segs |-> Normalized(p.segs, p.abs, <<>>)]

\* path.isAbsolute(p) ? p : path.join(repoPath, p), then path.resolve
resolve(p, repoPath) ==
  IF p.abs THEN Normalized(p.segs, TRUE, <<>>)
  ELSE Normalized(repoPath \o p.segs, TRUE, <<>>)

\* String.prototype.startsWith on two absolute paths written out as text:
\* the last segment of the prefix has only to begin the segment it meets
startsWith(file, prefix) ==
  LET n == Len(prefix)
  IN \/ n = 0
     \/ /\ Len(file) >= n
        /\ \A k \in 1..(n - 1) : file[k] = prefix[k]
        /\ NameStartsWith(file[n], prefix[n])

\* the path is the directory or lies below it
Within(file, dir) ==
  Len(file) >= Len(dir) /\ \A k \in 1..Len(dir) : file[k] = dir[k]

PROTECTED_FILE_PATTERNS ==
  <<[pattern |-> ".env($|.)", reason |-> "Environment file"],
    [pattern |-> ".env.production$", reason |-> "Production environment file"],
    [pattern |-> ".git/", reason |-> "Git internal file"]>>

SENSITIVE_FILE_PATTERNS ==
  <<[pattern |-> "package.json$",
     warning |-> "Package manifest - dependencies may change"]>>

\* pattern.test(normalizedPath)
FileTest(pattern, segs) ==
  LET n == Len(segs)
  IN CASE pattern = ".env($|.)" ->
            \/ \E k \in 1..n : segs[k] = ".env.production"
            \/ n > 0 /\ segs[n] = ".env"
       [] pattern = ".env.production$" -> n > 0 /\ segs[n] = ".env.production"
       [] pattern = ".git/" -> \E k \in 1..(n - 1) : segs[k] = ".git"
       [] pattern = "package.json$" -> n > 0 /\ segs[n] = "package.json"
       [] OTHER -> FALSE

FirstProtected(segs) ==
  LET Fits(k) == FileTest(PROTECTED_FILE_PATTERNS[k].pattern, segs)
  IN FirstIndex(Len(PROTECTED_FILE_PATTERNS), Fits)

FirstSensitive(segs) ==
  LET Fits(k) == FileTest(SENSITIVE_FILE_PATTERNS[k].pattern, segs)
  IN FirstIndex(Len(SENSITIVE_FILE_PATTERNS), Fits)

\* (variant: the sensitive table is consulted before the protected one)
checkFilePathSensitiveFirst(filePath, repoPath) ==
  LET normalizedPath == normalize(filePath).segs
  IN IF ~startsWith(resolve(filePath, repoPath), Normalized(repoPath, TRUE, <<>>))
     THEN Blocked("Path outside repository", "")
     ELSE IF FirstSensitive(normalizedPath) # 0
     THEN Warned(SENSITIVE_FILE_PATTERNS[FirstSensitive(normalizedPath)].warning)
     ELSE IF FirstProtected(normalizedPath) # 0
     THEN Blocked("Protected file: ",
                  PROTECTED_FILE_PATTERNS[FirstProtected(normalizedPath)].reason)
     ELSE Allow

checkFilePath(filePath, repoPath) ==
  LET normalizedPath == normalize(filePath).segs
  IN IF ~startsWith(resolve(filePath, repoPath), Normalized(repoPath, TRUE, <<>>))
     THEN Blocked("Path outside repository", "")
     ELSE IF FirstProtected(normalizedPath) # 0
     THEN Blocked("Protected file: ",
                  PROTECTED_FILE_PATTERNS[FirstProtected(normalizedPath)].reason)
     ELSE IF FirstSensitive(normalizedPath) # 0
     THEN Warned(SENSITIVE_FILE_PATTERNS[FirstSensitive(normalizedPath)].warning)
     ELSE Allow

\* ------------------------------------------ the agent's tool uses and the policy
\* an absent command / file_path of a tool input
NoCommand == <<>>

NoPath == [abs |-> FALSE, segs |-> <<>>]

TheRepo == CHOOSE r \in RepoPaths : TRUE

\* a use of the Bash tool, or a direct call of checkBashCommand
BashUse(call, command) ==
  [call |-> call, tool |-> "Bash", command |-> command, filePath |-> NoPath,
   repoPath |-> TheRepo]

\* a use of a file tool, or a direct call of checkFilePath
FileUse(call, tool, filePath, repoPath) ==
  [call |-> call, tool |-> tool, command |-> NoCommand,
   filePath |-> filePath, repoPath |-> repoPath]

\* one direct call of a policy function or one tool use of the agent; the
\* agent mode matters to the agent's tool uses only
PolicyInit ==
  /\ Constructed
  /\ \/ \E c \in Commands :
          toolUse = BashUse("checkBashCommand", c) /\ ~cliMode
     \/ \E f \in Paths, r \in RepoPaths :
          toolUse = FileUse("checkFilePath", "Edit", f, r) /\ ~cliMode
     \/ \E c \in Commands \cup {NoCommand} : toolUse = BashUse("tool", c)
     \/ \E t \in {"Edit", "Write", "Read"}, f \in Paths \cup {NoPath},
           r \in RepoPaths :
          toolUse = FileUse("tool", t, f, r)
  /\ toolResult = NoToolResult
  /\ repo = NoRepo
  /\ gitResult = NoGitResult
  /\ fnCall = NoCall
  /\ fnResult = NoCall

PolicyUnchanged ==
  UNCHANGED <<queue, processing, loops, processedMessages, activeThreads,
              completedThreads, threadContextMap, cliMode, enqueued, lastRun,
              lastEvent, toolUse, gitVars, fnCall, fnResult>>

CallCheckBashCommand ==
  /\ ~toolResult.done /\ toolUse.call = "checkBashCommand"
  /\ toolResult' = [done |-> TRUE, checked |-> "checkBashCommand",
                     verdict |-> checkBashCommand(toolUse.command),
                     executed |-> FALSE, permission |-> PermissionAllow,
                     interrupted |-> FALSE]
  /\ PolicyUnchanged

CallCheckFilePath ==
  /\ ~toolResult.done /\ toolUse.call = "checkFilePath"
  /\ toolResult' = [done |-> TRUE, checked |-> "checkFilePath",
                     verdict |-> checkFilePath(toolUse.filePath,
                                               toolUse.repoPath),
                     executed |-> FALSE, permission |-> PermissionAllow,
                     interrupted |-> FALSE]
  /\ PolicyUnchanged

\* the Read branch of the callback: outside the repository only /tmp/ (and
\* /var/log/) may be read; the test is on the path as given
ReadAllowed(filePath, repoPath) ==
  \/ startsWith(resolve(filePath, repoPath), Normalized(repoPath, TRUE, <<>>))
  \/ filePath.abs /\ Len(filePath.segs) >= 2 /\ filePath.segs[1] = "tmp"

\* result.reason || fallback
ReasonOr(verdict, fallback) ==
  IF verdict.reason = <<>> THEN <<fallback>> ELSE verdict.reason

\* createToolPermissionCallback(repoPath)(toolName, toolInput): the policy
\* function it calls ("none" when it calls neither), that function's verdict
\* and the PermissionResult it returns
canUseTool(use) ==
  CASE use.tool = "Bash" /\ use.command # NoCommand ->
         LET result == checkBashCommand(use.command)
         IN [checked |-> "checkBashCommand", verdict |-> result,
             permission |-> IF ~result.allowed
                            THEN Deny(ReasonOr(result, "Command blocked"))
                            ELSE PermissionAllow]
    [] use.tool \in {"Edit", "Write"} /\ use.filePath # NoPath ->
         LET result == checkFilePath(use.filePath, use.repoPath)
         IN [checked |-> "checkFilePath", verdict |-> result,
             permission |-> IF ~result.allowed
                            THEN Deny(ReasonOr(result, "File access blocked"))
                            ELSE PermissionAllow]
    [] use.tool = "Read" /\ use.filePath # NoPath ->
         [checked |-> "none", verdict |-> Allow,
          permission |-> IF ReadAllowed(use.filePath, use.repoPath)
                         THEN PermissionAllow
                         ELSE Deny(<<"Cannot read files outside repository">>)]
    [] OTHER -> [checked |-> "none", verdict |-> Allow,
                 permission |-> PermissionAllow]

\* Agent SDK mode: query() is given canUseTool; it runs a tool the callback
\* allows, and stops the run on a denial that asks for interruption
SdkToolUse ==
  /\ ~toolResult.done /\ toolUse.call = "tool" /\ ~cliMode
  /\ LET r == canUseTool(toolUse)
     IN toolResult' = [done |-> TRUE, checked |-> r.checked,
                       verdict |-> r.verdict,
                       executed |-> r.permission.behavior = "allow",
                       permission |-> r.permission,
                       interrupted |-> r.permission.behavior = "deny"
                                         /\ r.permission.interrupt]
  /\ PolicyUnchanged

\* tools the CLI is started with (--allowedTools)
allowedTools == {"Read", "Edit", "Write", "Bash", "Glob", "Grep"}

\* Claude CLI mode: the child process is given the allowed tools and a
\* permission mode, and no callback into the policy
CliToolUse ==
  /\ ~toolResult.done /\ toolUse.call = "tool" /\ cliMode
  /\ toolResult' = [done |-> TRUE, checked |-> "none", verdict |-> Allow,
                     executed |-> toolUse.tool \in allowedTools,
                     permission |-> PermissionAllow, interrupted |-> FALSE]
  /\ PolicyUnchanged

PolicyNext ==
  \/ CallCheckBashCommand
  \/ CallCheckFilePath
  \/ SdkToolUse
  \/ CliToolUse

PolicySpec == PolicyInit /\ [][PolicyNext]_vars

\* ================================================================ properties
Running == {i \in Loops : loops[i].pc = "run"}

\* the jobs held by the queue or by a running handler
JobsInSystem ==
  {queue[k] : k \in 1..Len(queue)} \cup {loops[i].job : i \in Running}

\* C1: at most one handler invocation is in progress and at most one
\* process() loop exists at any time, whenever enqueue is called
C1_SingleWorker ==
  /\ Cardinality(Running) <= 1
  /\ Cardinality({i \in Loops : loops[i].pc # "free"}) <= 1

\* an enqueue has just arrived while the loop sleeps between two jobs
C1_Witness ==
  /\ processing
  /\ lastEvent.outcome = "enqueued"
  /\ \E i \in Loops : loops[i].pc = "sleep"
  /\ Len(queue) >= 2

\* C2: no job is handed to the handler more than maxRetries + 1 times, no
\* retryCount exceeds maxRetries, and a job is dropped after a failure only
\* when it has been attempted exactly maxRetries + 1 times
C2_BoundedRetry ==
  /\ \A job \in JobsInSystem :
       job.started <= maxRetries + 1 /\ job.retryCount <= maxRetries
  /\ (lastRun.status \in {"failed", "threw"} /\ ~lastRun.requeued)
       => lastRun.attempts = maxRetries + 1
  /\ (lastRun.status \in {"failed", "threw"} /\ lastRun.requeued)
       => lastRun.attempts <= maxRetries

\* a job has just been dropped after its third attempt ended in an exception
C2_Witness ==
  /\ lastRun.status = "threw"
  /\ ~lastRun.requeued
  /\ lastRun.attempts = maxRetries + 1

\* C3: whatever the handler returns or throws, every queued job is
\* eventually handed to the handler, and the queue ends up empty with
\* processing = false
C3_LoopSurvives ==
  /\ \A m \in 1..MaxJobs :
       (m \in JobIds(queue)) ~> (\E i \in Running : loops[i].job.id = m)
  /\ <>[](queue = <<>> /\ ~processing)

\* the handler has just thrown on the last attempt of a job while other jobs
\* wait in the queue
C3_Witness ==
  /\ lastRun.status = "threw"
  /\ ~lastRun.requeued
  /\ Len(queue) > 0
  /\ processing

\* C4: first attempts start in arrival order, and a job that failed does
\* not start its next attempt before every job that was queued at the
\* failure has started one
C4_FifoRetryAtTail ==
  /\ \A i \in Running : loops[i].job.behind = {}
  /\ \A k \in 1..Len(queue) :
       queue[k].started = 0 =>
         /\ \A i \in Running : loops[i].job.seq < queue[k].seq
         /\ \A l \in 1..Len(queue) :
              queue[l].started > 0 => queue[l].seq < queue[k].seq
         /\ \A l \in 1..(k - 1) :
              queue[l].started = 0 => queue[l].seq < queue[k].seq

\* a failed job waits for its retry behind jobs that were queued when it
\* failed, one of them not yet attempted
C4_Witness ==
  \E k \in 1..Len(queue) :
    /\ queue[k].retryCount > 0
    /\ queue[k].behind # {}
    /\ \E l \in 1..(k - 1) : queue[l].started = 0

\* C5: an inbound event whose thread key is in activeThreads creates and
\* enqueues no job: every job that a step brings into the system belongs to
\* a thread that was not in activeThreads before the step
C5_ActiveThreadDrops ==
  [][\A job \in JobsInSystem' :
       job.id \notin {j.id : j \in JobsInSystem}
         => /\ job.threadTs \notin activeThreads
            /\ enqueued' = enqueued + 1]_vars

\* a reply has just been dropped because its thread is active
C5_Witness ==
  /\ lastEvent.outcome = "active-reply"
  /\ activeThreads # {}

\* C6 (as stated): no thread is in activeThreads and completedThreads at once
C6_Disjoint == activeThreads \cap completedThreads = {}

\* C6 (amended): a thread comes to be in both sets only by the admission of
\* a reply to a thread that was already completed; no step of the pipeline
\* puts a thread in both
C6_OverlapOnlyByFollowUp ==
  [][\A t \in Msgs :
       (t \in activeThreads' \cap completedThreads'
          /\ t \notin activeThreads \cap completedThreads)
       => /\ t \in completedThreads
          /\ t \notin activeThreads
          /\ lastEvent'.outcome = "enqueued"
          /\ \E job \in JobsInSystem' :
               job.threadTs = t /\ job.isFollowUp /\ job.retryCount = 0]_vars

\* a follow-up job is in flight on a completed thread
C6_Witness ==
  \E job \in JobsInSystem :
    /\ job.isFollowUp
    /\ job.threadTs \in activeThreads \cap completedThreads

ListedStages == {"cli", "agent", "branch", "commit", "push", "pr"}

StageCall(stage) ==
  CASE stage = "cli" -> "checkClaudeCliInstalled"
    [] stage = "agent" -> "analyzeAndFix"
    [] stage = "branch" -> "createBranch"
    [] stage = "commit" -> "commitChanges"
    [] stage = "push" -> "pushBranch"
    [] stage = "pr" -> "createPullRequest"
    [] OTHER -> "none"

\* C7: when the collaborator of a stage reports failure (and the notifier
\* works), the attempt returns status 'failed' and the failing call is the
\* last collaborator call of the attempt
C7_StageFailureFails ==
  (lastRun.failStage \in ListedStages /\ ~lastRun.notifierFailed)
    => /\ lastRun.status = "failed"
       /\ lastRun.calls[Len(lastRun.calls)] = StageCall(lastRun.failStage)

\* C8: when an invocation of processIssue has ended, the thread key of its
\* job is not in activeThreads
C8_ClaimReleased == lastRun.status # "none" => ~lastRun.activeAfter

\* C9: an invocation that returns status 'failed' has made a successful
\* notifier call that reports the failure
C9_FailureReported == lastRun.status = "failed" => lastRun.notified

\* C10: over all attempts on one job, createPullRequest succeeds at most once
C10_OnePrPerJob ==
  /\ \A job \in JobsInSystem : job.prs <= 1
  /\ lastRun.prs <= 1

\* the collaborator calls that create a branch, a commit, a push or a PR
WritingCalls ==
  {"createBranch", "commitChanges", "pushBranch", "createPullRequest"}

\* C11: an attempt whose agent run succeeded and whose working tree shows no
\* changed file returns status 'completed' and has called none of
\* createBranch, commitChanges, pushBranch, createPullRequest
C11_NoChangesCompletes ==
  lastRun.noChanges
    => /\ lastRun.status = "completed"
       /\ \A k \in 1..Len(lastRun.calls) : lastRun.calls[k] \notin WritingCalls

\* C12: an attempt on a follow-up job that carries a context with branch B
\* does not call createBranch, and when it commits it is on branch B
C12_FollowUpReusesBranch ==
  lastRun.ctxBranch # 0
    => /\ \A k \in 1..Len(lastRun.calls) : lastRun.calls[k] # "createBranch"
       /\ (\E k \in 1..Len(lastRun.calls) : lastRun.calls[k] = "commitChanges")
            => lastRun.branch = lastRun.ctxBranch

C14_FilesNeverShrink ==
  [][\A t \in Msgs :
       threadContextMap[t].files \subseteq threadContextMap'[t].files]_vars

\* C15: markThreadCompleted called with a context for a thread that has a
\* stored context P stores the union of P's files and the argument's files
C15_MarkCompletedMerges ==
  [][\A t \in TrackThreads : \A ctx \in TrackCtxs(t) :
       (CallMarkThreadCompleted(t, ctx) /\ ~ctx.none
          /\ ~threadContextMap[t].none)
         => threadContextMap'[t].files
              = threadContextMap[t].files \cup ctx.files]_vars

\* the command fits some pattern of the table
FitsAllowed(c) ==
  \E k \in 1..Len(ALLOWED_BASH_PATTERNS) : BashTest(ALLOWED_BASH_PATTERNS[k], c)

FitsBlocked(c) ==
  \E k \in 1..Len(BLOCKED_BASH_PATTERNS) :
    BashTest(BLOCKED_BASH_PATTERNS[k].pattern, c)

FitsWarned(c) ==
  \E k \in 1..Len(WARN_BASH_PATTERNS) :
    BashTest(WARN_BASH_PATTERNS[k].pattern, c)

C17_BlockedIsDenied ==
  (toolResult.done /\ toolUse.call = "checkBashCommand"
     /\ FitsBlocked(toolUse.command))
    => ~toolResult.verdict.allowed

\* C18: checkFilePath denies every path whose resolved location is neither
\* repoRoot nor below it
C18_OutsideIsDenied ==
  (toolResult.done /\ toolUse.call = "checkFilePath"
     /\ ~Within(resolve(toolUse.filePath, toolUse.repoPath),
                Normalized(toolUse.repoPath, TRUE, <<>>)))
    => ~toolResult.verdict.allowed

\* the normalized path fits some pattern of the table
FitsProtected(segs) ==
  \E k \in 1..Len(PROTECTED_FILE_PATTERNS) :
    FileTest(PROTECTED_FILE_PATTERNS[k].pattern, segs)

FitsSensitive(segs) ==
  \E k \in 1..Len(SENSITIVE_FILE_PATTERNS) :
    FileTest(SENSITIVE_FILE_PATTERNS[k].pattern, segs)

\* C19: for a path inside repoRoot the protected table is consulted before
\* the sensitive one: a path that fits both is denied, one that fits only
\* the sensitive table is allowed with a warning, one that fits neither is
\* allowed without a warning
C19_ProtectedBeforeSensitive ==
  (toolResult.done /\ toolUse.call = "checkFilePath"
     /\ Within(resolve(toolUse.filePath, toolUse.repoPath),
               Normalized(toolUse.repoPath, TRUE, <<>>)))
    => LET segs == normalize(toolUse.filePath).segs
           v == toolResult.verdict
       IN /\ FitsProtected(segs) => ~v.allowed
          /\ (~FitsProtected(segs) /\ FitsSensitive(segs))
               => v.allowed /\ v.warning # ""
          /\ (~FitsProtected(segs) /\ ~FitsSensitive(segs)) => v = Allow

\* a path inside the repository that fits both tables has been denied
C19_Witness ==
  /\ toolResult.done /\ toolUse.call = "checkFilePath"
  /\ Within(resolve(toolUse.filePath, toolUse.repoPath),
            Normalized(toolUse.repoPath, TRUE, <<>>))
  /\ FitsProtected(normalize(toolUse.filePath).segs)
  /\ FitsSensitive(normalize(toolUse.filePath).segs)
  /\ ~toolResult.verdict.allowed

\* the policy function that answers for a tool, and its verdict on a use
PolicyOf(tool) == IF tool = "Bash" THEN "checkBashCommand" ELSE "checkFilePath"

PolicyVerdict(use) ==
  IF use.tool = "Bash" THEN checkBashCommand(use.command)
  ELSE checkFilePath(use.filePath, use.repoPath)

\* C20: in either agent mode, a Bash command or a file Write, Edit or Read
\* that the agent performs was handed to its policy function first, and the
\* policy's verdict on it was not a denial
C20_ToolUsesAreChecked ==
  (toolResult.done /\ toolUse.call = "tool" /\ toolResult.executed
     /\ toolUse.tool \in {"Bash", "Write", "Edit", "Read"}
     /\ (toolUse.command # NoCommand \/ toolUse.filePath # NoPath))
    => /\ toolResult.checked = PolicyOf(toolUse.tool)
       /\ PolicyVerdict(toolUse).allowed

\* C21: a denial of the tool-permission callback is a result with behavior
\* 'deny' whose message is the policy's reason and which does not ask for
\* interruption: the tool is not run and the agent run goes on
C21_DenyIsLocal ==
  (toolResult.done /\ toolUse.call = "tool" /\ ~cliMode
     /\ ~toolResult.executed)
    => /\ toolResult.permission.behavior = "deny"
       /\ ~toolResult.permission.interrupt
       /\ ~toolResult.interrupted
       /\ toolResult.permission.message # <<>>
       /\ toolResult.checked # "none"
            => toolResult.permission.message = toolResult.verdict.reason

\* a Bash command has been denied by the blocklist
C21_Witness ==
  /\ toolResult.done /\ toolUse.call = "tool" /\ ~cliMode
  /\ toolUse.tool = "Bash" /\ ~toolResult.executed
  /\ toolResult.permission.message = <<"Blocked: ", "Privilege escalation">>

\* C22: an attempt in which a notifier call failed and every other
\* collaborator call succeeded ends with status 'completed', as it does when
\* the notifier works
C22_NotifierNeverFatal ==
  (/\ lastRun.status # "none"
   /\ lastRun.notifierFailed
   /\ lastRun.failStage = "none"
   /\ lastRun.ctxBranch # 0 => lastRun.branch = lastRun.ctxBranch)
    => lastRun.status = "completed"

\* C23: a job whose attempt failed because the Claude CLI is not installed
\* is not re-appended to the queue, and that attempt was its first
C23_ConfigErrorNoRetry ==
  lastRun.failStage = "cli"
    => /\ ~lastRun.requeued
       /\ lastRun.attempts = 1

\* C24: when createBranch is called while a local branch of the generated
\* name exists, and no git command fails for an outside reason, it returns
\* success with that name, and the branch is a new one made from the base
\* branch and checked out
C24_CreateBranchIdempotent ==
  (gitResult.op = "createBranch" /\ ~gitResult.threw /\ gitResult.existed
     /\ gitResult.fault = "ok")
    => /\ gitResult.success
       /\ gitResult.branchName = gitResult.name
       /\ gitResult.from = 0
       /\ repo.head = gitResult.name
       /\ gitResult.name \in repo.local

\* createBranch has succeeded on a name whose branch existed
C24_Witness ==
  /\ gitResult.op = "createBranch" /\ gitResult.existed
  /\ gitResult.success /\ repo.head = gitResult.name

C26_AdmittedOnce ==
  [][/\ processedMessages \subseteq processedMessages'
     /\ enqueued' # enqueued
          => \E job \in JobsInSystem' :
               /\ job.seq = enqueued'
               /\ job.id \notin processedMessages
               /\ job.id \in processedMessages']_vars

\* an event has been dropped as a duplicate while no thread was active
C26_Witness ==
  /\ lastEvent.outcome = "duplicate"
  /\ activeThreads = {}
  /\ completedThreads # {}

\* C27: a thread reply is enqueued only when, before the step, its thread
\* key is in completedThreads and not in activeThreads
C27_ReplyNeedsCompletedThread ==
  [][enqueued' # enqueued
       => \E job \in JobsInSystem' :
            /\ job.seq = enqueued'
            /\ job.isFollowUp
                 => /\ job.threadTs \in completedThreads
                    /\ job.threadTs \notin activeThreads]_vars

\* a reply has just been admitted as a follow-up job
C27_Witness ==
  /\ lastEvent.outcome = "enqueued"
  /\ \E job \in JobsInSystem : job.seq = enqueued /\ job.isFollowUp

\* C28: the jobs that are queued (a retry included) or being processed
\* belong to different threads
C28_OneJobPerThread ==
  \A j1 \in JobsInSystem : \A j2 \in JobsInSystem :
    j1.threadTs = j2.threadTs => j1.id = j2.id

\* C29: within one attempt the collaborator calls are made in the fixed
\* order of the stages and none twice; change detection follows the agent
\* run, the commit follows it on a branch created or reused, the push
\* follows the commit, the pull request follows the push, and the
\* deployment wait follows the push with a pull request at hand
C29_StageOrder ==
  LET Rank == [initializeRepo |-> 1, checkoutExistingBranch |-> 2,
               checkClaudeCliInstalled |-> 3, analyzeAndFix |-> 4,
               getStatus |-> 5, createBranch |-> 6, commitChanges |-> 7,
               pushBranch |-> 8, createPullRequest |-> 9, addLabels |-> 10,
               waitForDeployment |-> 11]
      Has(calls, op) == \E k \in 1..Len(calls) : calls[k] = op
      InOrder(calls, branch) ==
        /\ \A k \in 1..(Len(calls) - 1) : Rank[calls[k]] < Rank[calls[k + 1]]
        /\ Has(calls, "getStatus") => Has(calls, "analyzeAndFix")
        /\ Has(calls, "commitChanges")
             => /\ Has(calls, "getStatus")
                /\ Has(calls, "createBranch") \/ branch # 0
        /\ Has(calls, "pushBranch") => Has(calls, "commitChanges")
        /\ Has(calls, "createPullRequest") => Has(calls, "pushBranch")
        /\ Has(calls, "waitForDeployment") => Has(calls, "pushBranch")
  IN /\ InOrder(lastRun.calls, lastRun.branch)
     /\ \A i \in Running :
          /\ InOrder(loops[i].calls, loops[i].branch)
          /\ Has(loops[i].calls, "waitForDeployment") => loops[i].pr # 0

\* an attempt has gone through every stage up to the final report
C29_Witness ==
  /\ lastRun.status = "completed"
  /\ lastRun.calls = <<"initializeRepo", "analyzeAndFix", "getStatus",
                       "createBranch", "commitChanges", "pushBranch",
                       "createPullRequest", "addLabels", "waitForDeployment">>

\* C30: once a job has failed for good (no retry is left), a reply with a
\* new message id in its thread is admitted
C30_FailedThreadAdmitsReply ==
  \A ts \in 1..MaxThreadMsg :
    (/\ lastRun.status \in {"failed", "threw"}
     /\ ~lastRun.requeued
     /\ ts \notin processedMessages
     /\ ts > lastRun.threadTs)
      => Admission(ts, lastRun.threadTs) = "enqueued"

\* C39: clearActiveThread(threadKey) removes threadKey from activeThreads
\* and leaves every other member of it, completedThreads, the stored
\* contexts and processedMessages as they were
C39_ClearActiveFrame ==
  [][fnCall'.fn = "clearActiveThread"
       => /\ activeThreads' = activeThreads \ {fnCall'.threadTs}
          /\ completedThreads' = completedThreads
          /\ threadContextMap' = threadContextMap
          /\ processedMessages' = processedMessages]_vars

\* an active thread that is completed and has a stored context has been
\* cleared while another thread is active
C39_Witness ==
  /\ fnCall.fn = "clearActiveThread" /\ fnResult.value
  /\ fnCall.threadTs \in completedThreads
  /\ ~threadContextMap[fnCall.threadTs].none
  /\ activeThreads # {}

\* C40: markThreadCompleted(threadKey) without a context leaves every stored
\* context as it was, and so does getThreadContext, which returns the
\* stored context
C40_NoContextKeepsStore ==
  [][/\ (fnCall'.fn = "markThreadCompleted" /\ fnCall'.ctx.none)
          => threadContextMap' = threadContextMap
     /\ fnCall'.fn = "getThreadContext"
          => /\ threadContextMap' = threadContextMap
             /\ fnResult'.value = threadContextMap[fnCall'.threadTs]]_vars

\* a thread that has a stored context has been completed without one
C40_Witness ==
  /\ fnCall.fn = "markThreadCompleted" /\ fnCall.ctx.none
  /\ ~threadContextMap[fnCall.threadTs].none
  /\ threadContextMap[fnCall.threadTs].files # {}

\* C38: with the handler registered before the first enqueue, the queue is
\* empty whenever `processing` is false between two steps of the program
C38_IdleQueueEmpty == ~processing => queue = <<>>

\* the loop has ended after a job used up its attempts, all jobs handed in
C38_Witness ==
  /\ ~processing /\ queue = <<>>
  /\ enqueued = MaxJobs
  /\ lastRun.status # "completed" /\ lastRun.attempts = maxRetries + 1
  /\ \A i \in Loops : loops[i].pc = "free"

\* C33: in every stored ThreadContext the stored pull request is the one
\* opened for the stored branch
C33_StoredPrIsOfStoredBranch ==
  \A t \in Msgs :
    ~threadContextMap[t].none => threadContextMap[t].pr = threadContextMap[t].branch

C37_OriginalTextKept ==
  [][\A t \in Msgs :
       ~threadContextMap[t].none
         => threadContextMap'[t].text = threadContextMap[t].text]_vars

\* C32: two runs that differ only in the file list the agent reports take
\* the same path (changes or none), commit the same files and store the same
\* file list; only the logged warning can differ
C32_AgentReportIgnored ==
  fnResult.fn = "checkForChanges"
    => /\ [fnResult.a EXCEPT !.warned = FALSE]
            = [fnResult.b EXCEPT !.warned = FALSE]
       /\ fnResult.a.filesChanged = fnCall.gitStatus
       /\ fnResult.a.noChanges <=> fnCall.gitStatus = {}

\* git shows changed files, one agent reports none and the other reports
\* files that git does not show
C32_Witness ==
  /\ fnResult.fn = "checkForChanges"
  /\ fnCall.gitStatus # {} /\ fnCall.a = {}
  /\ fnCall.b # {} /\ fnCall.b \cap fnCall.gitStatus = {}
  /\ ~fnCall.ctx.none /\ fnCall.ctx.files # {}
  /\ ~fnResult.b.noChanges

\* C31: a progress event of a phase other than 'complete' is forwarded only
\* PROGRESS_UPDATE_INTERVAL or more after the pipeline started and after
\* every event forwarded before it; an event of phase 'complete' is always
\* forwarded, at once
C31_ProgressThrottled ==
  fnCall.fn = "onProgress"
    => LET u == fnResult.updates
       IN /\ \A j \in 1..Len(u) :
               u[j].phase # "complete"
                 => /\ u[j].at >= PROGRESS_UPDATE_INTERVAL
                    /\ \A k \in 1..(j - 1) :
                         u[j].at - u[k].at >= PROGRESS_UPDATE_INTERVAL
          /\ fnCall.phase = "complete"
               => /\ u # <<>>
                  /\ u[Len(u)] = [at |-> fnCall.at, phase |-> "complete"]

\* an event was dropped, and a 'complete' event was forwarded less than the
\* interval after a forwarded event and was followed by a forwarded one
C31_Witness ==
  /\ fnCall.fn = "onProgress"
  /\ fnCall.events > Len(fnResult.updates)
  /\ \E j \in 2..Len(fnResult.updates) - 1 :
       /\ fnResult.updates[j].phase = "complete"
       /\ fnResult.updates[j - 1].phase # "complete"
       /\ fnResult.updates[j + 1].phase # "complete"
       /\ fnResult.updates[j].at - fnResult.updates[j - 1].at
            < PROGRESS_UPDATE_INTERVAL

\* C35: a call with maxWaitMinutes = m makes at most m*60/10 polling
\* attempts, each after a sleep of 10 seconds of its own, gives the failure
\* result only after the last of them, and always ends with a result,
\* whatever the API answers or throws
C35_BoundedPolling ==
  /\ [](fnResult.fn = "waitForDeployment"
          => /\ fnResult.attempts * 10 <= fnCall.maxWaitMinutes * 60
             /\ fnResult.attempts <= fnResult.sleeps
             /\ fnResult.sleeps <= fnResult.attempts + 1
             /\ fnResult.result = "failed"
                  => fnResult.attempts * 10 = fnCall.maxWaitMinutes * 60)
  /\ <>(fnResult.pc = "done" /\ fnResult.result \in DeploymentResults)

\* the wait of 5 minutes has ended in failure after 30 attempts
C35_Witness ==
  /\ fnResult.fn = "waitForDeployment" /\ fnResult.pc = "done"
  /\ fnCall.maxWaitMinutes = 5
  /\ fnResult.result = "failed"
  /\ fnResult.attempts = 30 /\ fnResult.sleeps = 31

\* C36: once an attempt has found the deployment in state ERROR or
\* CANCELED no further attempt is made, and the call ends in failure
C36_FailedDeploymentStopsPolling ==
  (fnResult.fn = "waitForDeployment" /\ fnResult.failedAt # 0)
    => /\ fnResult.attempts = fnResult.failedAt
       /\ fnResult.pc = "done" => fnResult.result = "failed"

====
